---- MODULE Spec2Model ----
(***************************************************************************)
(* A model of the image studio: the request proxy (POST /api/images), the  *)
(* studio client (form, submission) and its browser-local gallery store.   *)
(***************************************************************************)
EXTENDS Integers, Sequences, FiniteSets, TLC

VARIABLES
    \* ---- request proxy (route.ts): one request being served ----
    pReq,        \* the request being served, or NoRequest
    pEnv,        \* what the request meets: the API key and the external API's outcome
    pResp,       \* the response returned, or NoResponse
    \* ---- studio client (StudioClient) ----
    prompt, size, action, model, tagsInput,   \* form state
    imageFile,   \* imageInputRef: whether an image file is selected
    maskFile,    \* maskInputRef: whether a mask file is selected
    imageB64,    \* the last generated image, or Null
    loading,     \* the loading flag
    error,       \* the error message, or Null
    gallery,     \* the in-memory gallery: a sequence of items, newest first
    storage,     \* localStorage["studio-gallery"]
    mounted,     \* whether the mount effect (load) has run
    inflight,    \* the submission in flight (the handler's closure), or NoSubmission
    nextId,      \* how many ids generateId has handed out
    steps,       \* how many events have happened (also the clock)
    last,        \* the last operation (history)
    \* ---- search (filteredGallery) ----
    searchQuery, sGallery

proxyVars  == <<pReq, pEnv, pResp>>
formVars   == <<prompt, size, action, model, tagsInput, imageFile, maskFile>>
clientVars == <<formVars, imageB64, loading, error, gallery, storage, mounted, inflight,
                nextId, steps, last>>
searchVars == <<searchQuery, sGallery>>
vars       == <<proxyVars, clientVars, searchVars>>

----------------------------------------------------------------------------
(* JavaScript values, as far as the code looks at them: a type tag and the *)
(* text String(v) gives.                                                   *)

Str(x)    == [t |-> "string", s |-> x]
Num(x)    == [t |-> "number", s |-> x]
Undef     == [t |-> "undefined", s |-> "undefined"]
JsNull    == [t |-> "null", s |-> "null"]
EmptyArr  == [t |-> "array", s |-> ""]
FileVal   == [t |-> "file", s |-> "[object File]"]

\* JavaScript truthiness: what `!v` and `v || d` test.
Truthy(v) ==
    CASE v.t = "string"                -> v.s # ""
      [] v.t = "number"                -> v.s \notin {"0", "NaN"}
      [] v.t \in {"undefined", "null"} -> FALSE
      [] OTHER                         -> TRUE

\* v || d
OrElse(v, d) == IF Truthy(v) THEN v ELSE d

\* String(v)
ToStr(v) == v.s

\* v instanceof File
IsFile(v) == v.t = "file"

----------------------------------------------------------------------------
(* The request proxy: src/src/app/api/images/route.ts                      *)

NoRequest  == [contentType |-> "none"]
NoResponse == [status |-> 0]

MultipartTypes == {"multipart/form-data; boundary=x"}
ContentTypes   == MultipartTypes \cup {"application/json", ""}

\* contentType.includes("multipart/form-data")
IsMultipart(ct) == ct \in MultipartTypes

DalleModels == {"dall-e-2", "dall-e-3"}

\* String(model).includes("dall-e")
IsDalle(m) == ToStr(m) \in DalleModels

\* new Response(JSON.stringify({ b64 }), ...): status 200
OkResponse(b64, calls) ==
    [status |-> 200, b64 |-> b64, error |-> Undef, calls |-> calls]

\* new Response(JSON.stringify({ error }), { status })
ErrorResponse(status, message, calls) ==
    [status |-> status, b64 |-> Undef, error |-> message, calls |-> calls]

\* faulty variant: the catch block without its default message
CaughtNoDefault(errMessage, calls) == ErrorResponse(500, errMessage, calls)

\* the catch block: err?.message || "Unknown error", status 500
Caught(errMessage, calls) ==
    ErrorResponse(500, OrElse(errMessage, Str("Unknown error")), calls)

\* getOpenAI: throws when the API key is not set
getOpenAIThrows(env) == ~Truthy(env.apiKey)

\* One call of the external API and what the handler does with its result:
\* the call throws (caught), or b64 = res.data?.[0]?.b64_json is tested.
AfterCall(env, call) ==
    IF env.ext.k = "throw"
    THEN Caught(env.ext.msg, <<call>>)
    ELSE IF ~Truthy(env.ext.b64)
         THEN ErrorResponse(500, Str("no image returned"), <<call>>)
         ELSE OkResponse(env.ext.b64, <<call>>)

ResponseFormatFor(m) == IF IsDalle(m) THEN Str("b64_json") ELSE Undef

GenerateCall(m, p, sz) ==
    [api |-> "generate", model |-> m, prompt |-> p, size |-> sz,
     image |-> Undef, mask |-> Undef, response_format |-> ResponseFormatFor(m)]

EditCall(m, p, sz, image, mask) ==
    [api |-> "edit", model |-> m, prompt |-> p, size |-> sz, image |-> image,
     mask |-> IF IsFile(mask) THEN mask ELSE Undef,
     response_format |-> ResponseFormatFor(m)]

VariationCall(m, sz, image) ==
    [api |-> "createVariation", model |-> IF IsDalle(m) THEN m ELSE Str("dall-e-2"),
     prompt |-> Undef, size |-> sz, image |-> image, mask |-> Undef,
     response_format |-> Str("b64_json")]

\* the multipart branch, once the form is parsed
PostMultipart(req, env) ==
    LET a  == OrElse(req.fields.action, Str("generate"))
        p  == OrElse(req.fields.prompt, Str(""))
        sz == OrElse(req.fields.size, Str("1024x1024"))
        m  == OrElse(req.fields.model, Str("gpt-image-1"))
        image == req.fields.image
    IN  IF a = Str("edit")
        THEN IF ~Truthy(image) \/ ~IsFile(image)
             THEN ErrorResponse(400, Str("image file is required for edit"), <<>>)
             ELSE AfterCall(env, EditCall(m, p, sz, image, req.fields.mask))
        ELSE IF a = Str("variation")
        THEN IF ~Truthy(image) \/ ~IsFile(image)
             THEN ErrorResponse(400, Str("image file is required for variation"), <<>>)
             ELSE AfterCall(env, VariationCall(m, sz, image))
        ELSE AfterCall(env, GenerateCall(m, p, sz))

\* the JSON branch: the body's action is not read
PostJson(req, env) ==
    LET p  == OrElse(req.fields.prompt, Str(""))
        sz == OrElse(req.fields.size, Str("1024x1024"))
        m  == OrElse(req.fields.model, Str("gpt-image-1"))
    IN  AfterCall(env, GenerateCall(m, p, sz))

\* POST: the whole handler
POST(req, env) ==
    IF getOpenAIThrows(env)
    THEN Caught(Str("OPENAI_API_KEY is not set"), <<>>)
    ELSE IF ~req.bodyOk
    THEN Caught(Str("Unexpected token in body"), <<>>)
    ELSE IF IsMultipart(req.contentType)
    THEN PostMultipart(req, env)
    ELSE PostJson(req, env)

\* ---- the requests and environments the proxy is tried on ----
ActionFields == {Undef, Str(""), Str("generate"), Str("edit"), Str("variation")}
PromptFields == {Undef, Str("a red fox")}
SizeFields   == {Undef, Str("512x512")}
ModelFields  == {Undef, Str("gpt-image-1"), Str("dall-e-2")}
ImageFields  == {Undef, FileVal, Str("not a file")}
MaskFields   == {Undef, FileVal}

\* a JSON body carries no File; a multipart form may
Requests ==
    { r \in [contentType : ContentTypes, bodyOk : BOOLEAN,
             fields : [action : ActionFields, prompt : PromptFields, size : SizeFields,
                       model : ModelFields, image : ImageFields, mask : MaskFields]] :
        IsMultipart(r.contentType) \/ (~IsFile(r.fields.image) /\ ~IsFile(r.fields.mask)) }

ApiKeys == {Undef, Str(""), Str("sk-test")}

ExtOutcomes ==
    { [k |-> "ok", b64 |-> b, msg |-> Undef] : b \in {Str("AAAA"), Str(""), Undef} }
    \cup { [k |-> "throw", b64 |-> Undef, msg |-> m] :
             m \in {Str("Rate limit exceeded"), Str(""), Undef} }

Envs == [apiKey : ApiKeys, ext : ExtOutcomes]

----------------------------------------------------------------------------
(* The studio client and its gallery store: src/unnamed/part_001           *)

GalleryCap == 100      \* [item, ...prev].slice(0, 100)
MaxSteps   == 3        \* events explored after the mount

Min(a, b) == IF a < b THEN a ELSE b

\* generateId: a fresh id on every call (n counts the calls made so far)
generateId(n) == "id_" \o ToString(n)

\* new Date().toISOString(), with the event count as the clock
NowISO(st) == "T" \o ToString(st)

\* ---- JSON: what JSON.stringify writes for the gallery and JSON.parse reads ----
\* An entry of a parsed array holds JavaScript values; tags is an array or not.
TagsArray(seq) == [arr |-> TRUE, v |-> seq]
NoTags         == [arr |-> FALSE, v |-> <<>>]

\* JSON.parse(JSON.stringify(items)): every field of an item is a string
ToJson(items) ==
    [i \in DOMAIN items |->
        [id |-> Str(items[i].id), createdAt |-> Str(items[i].createdAt),
         prompt |-> Str(items[i].prompt), action |-> Str(items[i].action),
         size |-> Str(items[i].size), model |-> Str(items[i].model),
         b64 |-> Str(items[i].b64),
         tags |-> TagsArray([j \in DOMAIN items[i].tags |-> Str(items[i].tags[j])])]]

\* a parsed value kept as it is (no String(...) around it)
Keep(v) == v.s

\* ---- localStorage["studio-gallery"] ----
StoreAbsent  == [k |-> "absent",  entries |-> <<>>]   \* getItem gives null
StoreGarbage == [k |-> "garbage", entries |-> <<>>]   \* JSON.parse throws
StoreObject  == [k |-> "object",  entries |-> <<>>]   \* parses, but is no array
StoredArray(entries) == [k |-> "array", entries |-> entries]

loadGalleryFromStorage(st) ==
    IF st.k # "array" THEN <<>>
    ELSE [i \in DOMAIN st.entries |->
            LET it == st.entries[i]
            IN  [id |-> Keep(it.id), createdAt |-> Keep(it.createdAt),
                 prompt |-> Keep(it.prompt), action |-> Keep(it.action),
                 size |-> Keep(it.size), model |-> Keep(it.model), b64 |-> Keep(it.b64),
                 tags |-> IF it.tags.arr
                          THEN [j \in DOMAIN it.tags.v |-> Keep(it.tags.v[j])]
                          ELSE <<>>]]

\* faulty variant: a save that never reaches setItem
saveGalleryToStorageSkipped(items, st, writeOk) == st

\* faulty variant: a catch block that removes the key when setItem throws
saveGalleryToStorageWipe(items, st, writeOk) ==
    IF writeOk THEN StoredArray(ToJson(items)) ELSE StoreAbsent

\* saveGalleryToStorage: setItem may throw (quota); the error is swallowed
saveGalleryToStorage(items, st, writeOk) ==
    IF writeOk THEN StoredArray(ToJson(items)) ELSE st

\* addToGallery's updater: [item, ...prev].slice(0, 100)
addToGallery(item, prev) ==
    SubSeq(<<item>> \o prev, 1, Min(GalleryCap, Len(prev) + 1))

\* deleteFromGallery's updater: prev.filter((g) => g.id !== id)
deleteFromGallery(id, prev) == SelectSeq(prev, LAMBDA g : g.id # id)

\* parseTags: split on , and newline (the input is held as its pieces), trim,
\* drop the empty pieces, keep the first 20
MaxTags == 20
Trim(piece) ==
    CASE piece = " noir " -> "noir"
      [] piece = " "      -> ""
      [] OTHER            -> piece
parseTags(input) ==
    LET trimmed  == [i \in DOMAIN input |-> Trim(input[i])]
        nonEmpty == SelectSeq(trimmed, LAMBDA t : t # "")
    IN  SubSeq(nonEmpty, 1, Min(MaxTags, Len(nonEmpty)))

\* exportGalleryAsJSON: the downloaded artifact, as a parsed file
FileGarbage   == [k |-> "garbage",   entries |-> <<>>]  \* JSON.parse throws
FileObject    == [k |-> "object",    entries |-> <<>>]  \* JSON, but no array
FileNullEntry == [k |-> "nullentry", entries |-> <<>>]  \* an array holding null
FileArray(entries) == [k |-> "array", entries |-> entries]
exportGalleryAsJSON(items) == FileArray(ToJson(items))

\* handleImportFile's map: one entry coerced; generateId is called only when
\* x.id is falsy, new Date() only when x.createdAt is falsy
CoerceEntry(x, n, now) ==
    [id        |-> ToStr(OrElse(x.id, Str(generateId(n)))),
     createdAt |-> ToStr(OrElse(x.createdAt, Str(now))),
     prompt    |-> ToStr(OrElse(x.prompt, Str(""))),
     action    |-> Keep(OrElse(x.action, Str("generate"))),
     size      |-> Keep(OrElse(x.size, Str("1024x1024"))),
     model     |-> ToStr(OrElse(x.model, Str("gpt-image-1"))),
     b64       |-> ToStr(OrElse(x.b64, Str(""))),
     tags      |-> IF x.tags.arr
                   THEN [j \in DOMAIN x.tags.v |-> ToStr(x.tags.v[j])]
                   ELSE <<>>]

\* how many entries before index i get a generated id
IdsBefore(entries, i) == Cardinality({ j \in 1..(i - 1) : ~Truthy(entries[j].id) })

\* arr.map(...): the entries coerced in order, each generated id a fresh one
MapEntries(entries, n, now) ==
    [i \in DOMAIN entries |-> CoerceEntry(entries[i], n + IdsBefore(entries, i), now)]

\* how many ids the map generates
IdsGenerated(entries) == Cardinality({ j \in DOMAIN entries : ~Truthy(entries[j].id) })

\* faulty variant: the map without the filter on the payload
IncomingUnfiltered(entries, n, now) == MapEntries(entries, n, now)

\* arr.map(...).filter((x) => x.b64.length > 0)
Incoming(entries, n, now) ==
    SelectSeq(MapEntries(entries, n, now), LAMBDA x : x.b64 # "")

\* faulty variant: the new entries put after the existing ones
MergeAppend(incoming, prev) ==
    prev \o SelectSeq(incoming, LAMBDA i : i.id \notin { prev[j].id : j \in DOMAIN prev })

\* the import's updater: [...incoming.filter((i) => !existingIds.has(i.id)), ...prev]
Merge(incoming, prev) ==
    LET existingIds == { prev[i].id : i \in DOMAIN prev }
    IN  SelectSeq(incoming, LAMBDA i : i.id \notin existingIds) \o prev

----------------------------------------------------------------------------
(* The studio client's state machine                                       *)

Prompts   == {"", "a red fox"}
Sizes     == {"1024x1024", "512x512"}
Actions   == {"generate", "edit", "variation"}
Models    == {"gpt-image-1", "", "dall-e-2"}
TagInputs == {<<"">>, <<" noir ", " ", "portrait">>}

\* ---- what localStorage may hold when the page is opened ----
StoredEntry(id, tags) ==
    [id |-> Str(id), createdAt |-> Str("T0"), prompt |-> Str("an old prompt"),
     action |-> Str("generate"), size |-> Str("1024x1024"), model |-> Str("gpt-image-1"),
     b64 |-> Str("OLD0"), tags |-> tags]
\* written by a version that stored no tags
StoreLegacy == StoredArray(<<StoredEntry("old_1", NoTags)>>)
\* a gallery that has reached the cap
StoreFull ==
    StoredArray([i \in 1..GalleryCap |-> StoredEntry("old_" \o ToString(i), TagsArray(<<>>))])
InitialStores == {StoreAbsent, StoreGarbage, StoreObject, StoreLegacy, StoreFull}

\* ---- the files handed to the import ----
Entry(id, b64, m, tags) ==
    [id |-> id, createdAt |-> Undef, prompt |-> Str("imported"), action |-> Undef,
     size |-> Str("512x512"), model |-> m, b64 |-> b64, tags |-> tags]
\* two entries with the same id
FileTwins  == FileArray(<<Entry(Str("a"), Str("AAAA"), Str("m"), TagsArray(<<Str("x")>>)),
                         Entry(Str("a"), Str("BBBB"), Str("m"), NoTags)>>)
\* an entry with no payload, an entry with no id and no tags, an entry whose
\* payload stringifies to nothing
FilePartial == FileArray(<<Entry(Str("b"), Undef, Undef, NoTags),
                           Entry(Undef, Str("CCCC"), Undef, NoTags),
                           Entry(Str("c"), EmptyArr, Str("m"), NoTags)>>)
\* values that are no strings: a numeric id, payload, model and tag
FileOdd    == FileArray(<<Entry(Num("7"), Num("5"), Num("3"), TagsArray(<<Num("1")>>))>>)
\* an entry whose id is already in a gallery loaded from StoreFull or StoreLegacy
FileKnown  == FileArray(<<Entry(Str("old_1"), Str("NEW1"), Str("m"), NoTags),
                          Entry(Str("d"), Str("DDDD"), Str("m"), NoTags)>>)
\* an entry with one tag more than parseTags lets through
FileManyTags ==
    FileArray(<<Entry(Str("e"), Str("EEEE"), Str("m"),
                      TagsArray([i \in 1..(MaxTags + 1) |-> Str("t" \o ToString(i))]))>>)
ImportFiles == {FileGarbage, FileObject, FileNullEntry, FileTwins, FilePartial,
                FileOdd, FileKnown, FileManyTags}

NoSubmission ==
    [active |-> FALSE, prompt |-> "", size |-> "", action |-> "", model |-> "",
     tagsInput |-> <<>>, request |-> NoRequest]

\* the last operation: its name, the entries an import took from its file (after
\* the map and the filter), whether its write to localStorage went through, and
\* for an add the submission it belongs to and the image returned
Hist(op, incoming, writeOk) ==
    [op |-> op, incoming |-> incoming, writeOk |-> writeOk,
     sent |-> NoSubmission, b64 |-> Undef]
Quiet(op) == Hist(op, <<>>, TRUE)

ClientInit ==
    /\ prompt = "" /\ size = "1024x1024" /\ action = "generate"
    /\ model = "gpt-image-1" /\ tagsInput = <<"">>
    /\ imageFile = FALSE /\ maskFile = FALSE
    /\ imageB64 = JsNull /\ loading = FALSE /\ error = JsNull
    /\ gallery = <<>>
    /\ mounted = FALSE
    /\ inflight = NoSubmission
    /\ nextId = 1
    /\ steps = 0
    /\ last = Quiet("init")

ProxyIdle  == pReq = NoRequest /\ pEnv = NoRequest /\ pResp = NoResponse
SearchIdle == searchQuery = <<>> /\ sGallery = <<>>

\* the events explored are counted; an event is taken only if, after it, a step
\* is left for every request in flight to be answered, so that the bound on the
\* exploration never leaves a request unanswered
TickFor(n) == steps + n <= MaxSteps /\ steps' = steps + 1
Tick == TickFor(IF inflight.active THEN 2 ELSE 1)

\* a step of the client leaves the proxy's and the search's variables alone
ClientOnly == UNCHANGED <<proxyVars, searchVars>>

\* useEffect(() => setGallery(loadGalleryFromStorage()), [])
Mount ==
    /\ ~mounted
    /\ mounted' = TRUE
    /\ gallery' = loadGalleryFromStorage(storage)
    /\ last' = Quiet("load")
    /\ ClientOnly
    /\ UNCHANGED <<formVars, imageB64, loading, error, storage, inflight, nextId, steps>>

\* ---- the form's onChange handlers ----
SetPrompt(p) ==
    /\ mounted /\ p # prompt /\ Tick
    /\ prompt' = p
    /\ last' = Quiet("setPrompt")
    /\ ClientOnly
    /\ UNCHANGED <<size, action, model, tagsInput, imageFile, maskFile, imageB64, loading,
                   error, gallery, storage, mounted, inflight, nextId>>

SetSize(sz) ==
    /\ mounted /\ sz # size /\ Tick
    /\ size' = sz
    /\ last' = Quiet("setSize")
    /\ ClientOnly
    /\ UNCHANGED <<prompt, action, model, tagsInput, imageFile, maskFile, imageB64, loading,
                   error, gallery, storage, mounted, inflight, nextId>>

\* the file inputs are rendered only while canUpload (the mask's only for edit):
\* an input that is taken away loses its file
SetAction(a) ==
    /\ mounted /\ a # action /\ Tick
    /\ action' = a
    /\ imageFile' = IF a = "generate" THEN FALSE ELSE imageFile
    /\ maskFile' = IF a = "edit" THEN maskFile ELSE FALSE
    /\ last' = Quiet("setAction")
    /\ ClientOnly
    /\ UNCHANGED <<prompt, size, model, tagsInput, imageB64, loading,
                   error, gallery, storage, mounted, inflight, nextId>>

SetModel(m) ==
    /\ mounted /\ m # model /\ Tick
    /\ model' = m
    /\ last' = Quiet("setModel")
    /\ ClientOnly
    /\ UNCHANGED <<prompt, size, action, tagsInput, imageFile, maskFile, imageB64, loading,
                   error, gallery, storage, mounted, inflight, nextId>>

SetTagsInput(t) ==
    /\ mounted /\ t # tagsInput /\ Tick
    /\ tagsInput' = t
    /\ last' = Quiet("setTagsInput")
    /\ ClientOnly
    /\ UNCHANGED <<prompt, size, action, model, imageFile, maskFile, imageB64, loading,
                   error, gallery, storage, mounted, inflight, nextId>>

ChooseImage ==
    /\ mounted /\ action # "generate" /\ ~imageFile /\ Tick
    /\ imageFile' = TRUE
    /\ last' = Quiet("chooseImage")
    /\ ClientOnly
    /\ UNCHANGED <<prompt, size, action, model, tagsInput, maskFile, imageB64, loading,
                   error, gallery, storage, mounted, inflight, nextId>>

ChooseMask ==
    /\ mounted /\ action = "edit" /\ ~maskFile /\ Tick
    /\ maskFile' = TRUE
    /\ last' = Quiet("chooseMask")
    /\ ClientOnly
    /\ UNCHANGED <<prompt, size, action, model, tagsInput, imageFile, imageB64, loading,
                   error, gallery, storage, mounted, inflight, nextId>>

\* ---- submission ----
\* the request handleSubmit builds from the form: multipart when canUpload
BuildRequest ==
    IF action # "generate"
    THEN [contentType |-> "multipart/form-data; boundary=x", bodyOk |-> TRUE,
          fields |-> [action |-> Str(action), prompt |-> Str(prompt), size |-> Str(size),
                      model |-> Str(model),
                      image |-> IF imageFile THEN FileVal ELSE Undef,
                      mask |-> IF maskFile THEN FileVal ELSE Undef]]
    ELSE [contentType |-> "application/json", bodyOk |-> TRUE,
          fields |-> [action |-> Str(action), prompt |-> Str(prompt), size |-> Str(size),
                      model |-> Str(model), image |-> Undef, mask |-> Undef]]

\* faulty variant: a submit button that is never disabled
CanSubmitAlways == TRUE

\* the submit button is disabled while loading
CanSubmit == ~loading

\* handleSubmit up to its await: the form's values stay in the handler's closure
handleSubmit ==
    /\ mounted /\ CanSubmit /\ TickFor(2)
    /\ error' = JsNull
    /\ loading' = TRUE
    /\ imageB64' = JsNull
    /\ inflight' = [active |-> TRUE, prompt |-> prompt, size |-> size, action |-> action,
                    model |-> model, tagsInput |-> tagsInput, request |-> BuildRequest]
    /\ last' = Quiet("submit")
    /\ ClientOnly
    /\ UNCHANGED <<formVars, gallery, storage, mounted, nextId>>

\* faulty variant: a handler with no finally block
FinallyMissing == loading

\* handleSubmit's finally block: setLoading(false), on success and on failure
Finally == FALSE

\* faulty variant: the item built from the form as it is when the response arrives
NewItemFromForm(sub, b64, n, now) ==
    [id |-> generateId(n), createdAt |-> now, prompt |-> prompt, action |-> action,
     size |-> size, model |-> model, b64 |-> Keep(b64), tags |-> parseTags(tagsInput)]

\* the item handleSubmit adds on success
NewItem(sub, b64, n, now) ==
    [id |-> generateId(n), createdAt |-> now, prompt |-> sub.prompt, action |-> sub.action,
     size |-> sub.size, model |-> sub.model, b64 |-> Keep(b64),
     tags |-> parseTags(sub.tagsInput)]

\* what the proxy may answer to a request, over all it may meet
Responses(req) == { POST(req, env) : env \in Envs }

\* res.ok
ResOk(resp) == resp.status >= 200 /\ resp.status <= 299

\* the proxy answers with success: the image is shown and added to the gallery
SubmitSucceeds ==
    /\ inflight.active /\ TickFor(1)
    /\ \E resp \in Responses(inflight.request), writeOk \in BOOLEAN :
         LET next == addToGallery(NewItem(inflight, resp.b64, nextId, NowISO(steps)), gallery)
         IN  /\ ResOk(resp)
             /\ imageB64' = resp.b64
             /\ gallery' = next
             /\ storage' = saveGalleryToStorage(next, storage, writeOk)
             /\ last' = [Hist("add", <<>>, writeOk)
                           EXCEPT !.sent = inflight, !.b64 = resp.b64]
    /\ nextId' = nextId + 1
    /\ loading' = Finally
    /\ inflight' = NoSubmission
    /\ ClientOnly
    /\ UNCHANGED <<formVars, error, mounted>>

\* faulty variant: the catch block showing the message as it came
SubmitErrorRaw(msg) == msg

\* handleSubmit's catch: err?.message || "Something went wrong"
SubmitError(msg) == OrElse(msg, Str("Something went wrong"))

\* the proxy answers with an error status: data?.error || "Request failed" is thrown
SubmitRejected ==
    /\ inflight.active /\ TickFor(1)
    /\ \E resp \in Responses(inflight.request) :
             /\ ~ResOk(resp)
             /\ error' = SubmitError(OrElse(resp.error, Str("Request failed")))
    /\ loading' = Finally
    /\ inflight' = NoSubmission
    /\ last' = Quiet("submitFailed")
    /\ ClientOnly
    /\ UNCHANGED <<formVars, imageB64, gallery, storage, mounted, nextId>>

\* fetch rejects or the body is no JSON: what is thrown has a message, or none
FetchFails ==
    /\ inflight.active /\ TickFor(1)
    /\ \E msg \in {Str("Failed to fetch"), Undef} :
         error' = SubmitError(msg)
    /\ loading' = Finally
    /\ inflight' = NoSubmission
    /\ last' = Quiet("submitFailed")
    /\ ClientOnly
    /\ UNCHANGED <<formVars, imageB64, gallery, storage, mounted, nextId>>

\* ---- the gallery's buttons ----
\* the items whose Delete button is pressed: the newest and the oldest
DeleteTargets == { gallery[i].id : i \in {1, Len(gallery)} \cap DOMAIN gallery }

Delete(id) ==
    /\ mounted /\ Tick
    /\ \E writeOk \in BOOLEAN :
         LET next == deleteFromGallery(id, gallery)
         IN  /\ gallery' = next
             /\ storage' = saveGalleryToStorage(next, storage, writeOk)
             /\ last' = Hist("delete", <<>>, writeOk)
    /\ ClientOnly
    /\ UNCHANGED <<formVars, imageB64, loading, error, mounted, inflight, nextId>>

\* "Clear all", shown while the gallery is not empty
ClearAll ==
    /\ mounted /\ Len(gallery) > 0 /\ Tick
    /\ \E writeOk \in BOOLEAN :
         /\ gallery' = <<>>
         /\ storage' = saveGalleryToStorage(<<>>, storage, writeOk)
         /\ last' = Hist("clear", <<>>, writeOk)
    /\ ClientOnly
    /\ UNCHANGED <<formVars, imageB64, loading, error, mounted, inflight, nextId>>

\* handleImportFile on a file that parses to an array of objects
ImportSucceeds(file) ==
    /\ mounted /\ file.k = "array" /\ Tick
    /\ \E writeOk \in BOOLEAN :
         LET incoming == Incoming(file.entries, nextId, NowISO(steps))
             merged   == Merge(incoming, gallery)
         IN  /\ gallery' = merged
             /\ storage' = saveGalleryToStorage(merged, storage, writeOk)
             /\ last' = Hist("import", incoming, writeOk)
    /\ nextId' = nextId + IdsGenerated(file.entries)
    /\ ClientOnly
    /\ UNCHANGED <<formVars, imageB64, loading, error, mounted, inflight>>

\* what handleImportFile's catch receives
ImportError(file) ==
    CASE file.k = "garbage"   -> Str("Unexpected token in JSON")
      [] file.k = "object"    -> Str("Invalid JSON")
      [] file.k = "nullentry" -> Str("Cannot read properties of null (reading 'id')")

\* handleImportFile on a file that is no JSON, no array, or holds a null entry
ImportFails(file) ==
    /\ mounted /\ file.k # "array" /\ Tick
    /\ error' = OrElse(ImportError(file), Str("Failed to import"))
    /\ last' = Quiet("importFailed")
    /\ ClientOnly
    /\ UNCHANGED <<formVars, imageB64, loading, gallery, storage, mounted, inflight, nextId>>

Init == ClientInit /\ storage \in InitialStores /\ ProxyIdle /\ SearchIdle

Next ==
    \/ Mount
    \/ \E p \in Prompts : SetPrompt(p)
    \/ \E sz \in Sizes : SetSize(sz)
    \/ \E a \in Actions : SetAction(a)
    \/ \E m \in Models : SetModel(m)
    \/ \E t \in TagInputs : SetTagsInput(t)
    \/ ChooseImage
    \/ ChooseMask
    \/ handleSubmit
    \/ SubmitSucceeds
    \/ SubmitRejected
    \/ FetchFails
    \/ \E id \in DeleteTargets : Delete(id)
    \/ ClearAll
    \/ \E file \in ImportFiles : ImportSucceeds(file)
    \/ \E file \in ImportFiles : ImportFails(file)

Spec == Init /\ [][Next]_vars

\* the call to the proxy eventually returns or fails: the fetch resolves to a
\* success or an error status, or rejects
Respond == SubmitSucceeds \/ SubmitRejected \/ FetchFails
LiveSpec == Spec /\ WF_vars(Respond)

----------------------------------------------------------------------------
(* The proxy on its own: any request, whoever sends it                     *)

\* a step of the proxy leaves the client's and the search's variables alone
ProxyOnly == UNCHANGED <<clientVars, searchVars>>

\* a request arrives
ProxyReceive ==
    /\ pReq = NoRequest
    /\ pReq' \in Requests
    /\ pEnv' \in Envs
    /\ pResp' = NoResponse
    /\ ProxyOnly

\* POST runs to its return
ProxyRespond ==
    /\ pReq # NoRequest /\ pResp = NoResponse
    /\ pResp' = POST(pReq, pEnv)
    /\ UNCHANGED <<pReq, pEnv>>
    /\ ProxyOnly

\* the response is sent: the proxy keeps nothing of the request
ProxyForget ==
    /\ pResp # NoResponse
    /\ pReq' = NoRequest /\ pEnv' = NoRequest /\ pResp' = NoResponse
    /\ ProxyOnly

ProxyInit == ProxyIdle /\ ClientInit /\ storage = StoreAbsent /\ SearchIdle
ProxyNext == ProxyReceive \/ ProxyRespond \/ ProxyForget
ProxySpec == ProxyInit /\ [][ProxyNext]_vars

Answered == pResp # NoResponse

\* the request names edit or variation and carries no image file
WantsImageWithout(req) ==
    /\ req.fields.action \in {Str("edit"), Str("variation")}
    /\ ~IsFile(req.fields.image)

NonEmptyString(v) == v.t = "string" /\ v.s # ""
Absent(v)         == v.t = "undefined"

\* C1 (as stated): every request whose action is edit or variation and that carries
\* no image file, JSON or multipart, is answered with status 400 and no call of the
\* external API is made for it. Read for a proxy that has its API key and a body
\* it can parse: without them the answer is the 500 that C2 states.
C1_NoImageRejected ==
    (Answered /\ Truthy(pEnv.apiKey) /\ pReq.bodyOk /\ WantsImageWithout(pReq))
        => (pResp.status = 400 /\ pResp.calls = <<>>)

\* C2: every response is either status 200 with a non-empty b64 string (and no
\* error), or status 400 or 500 with a non-empty error message (and no b64); the
\* status is 500 whenever the API key is absent, the external call throws, or the
\* external API returns no image.
C2_ResponseShape ==
    Answered =>
        /\ \/ pResp.status = 200 /\ NonEmptyString(pResp.b64) /\ Absent(pResp.error)
           \/ pResp.status \in {400, 500} /\ NonEmptyString(pResp.error) /\ Absent(pResp.b64)
        /\ ~Truthy(pEnv.apiKey) => pResp.status = 500
        /\ (pResp.calls # <<>> /\ pEnv.ext.k = "throw") => pResp.status = 500
        /\ (pResp.calls # <<>> /\ pEnv.ext.k = "ok" /\ ~NonEmptyString(pEnv.ext.b64))
               => pResp.status = 500

\* the external call threw an error with an empty message, and the proxy answered
C2_Witness ==
    /\ Answered /\ pResp.calls # <<>>
    /\ pEnv.ext.k = "throw" /\ pEnv.ext.msg = Str("")
    /\ pResp.status = 500

----------------------------------------------------------------------------
(* Search: filteredGallery. Here a string is the sequence of its characters. *)

MaxQueryLen == 3       \* the longest query typed

QueryChars == {"a", "A", "b", " "}

\* one character lower-cased
LowerChar(c) ==
    CASE c = "A" -> "a"
      [] c = "B" -> "b"
      [] OTHER   -> c

\* faulty variant: a comparison that keeps the letter case
toLowerCaseKept(str) == str

\* String.prototype.toLowerCase
toLowerCase(str) == [i \in DOMAIN str |-> LowerChar(str[i])]

\* String.prototype.trim: the text between the first and the last character
\* that is no white space
trim(str) ==
    LET solid == { i \in DOMAIN str : str[i] # " " }
    IN  IF solid = {} THEN <<>>
        ELSE SubSeq(str, CHOOSE i \in solid : \A j \in solid : i <= j,
                         CHOOSE i \in solid : \A j \in solid : i >= j)

\* String.prototype.includes
includes(txt, q) ==
    \E i \in 1..(Len(txt) - Len(q) + 1) : SubSeq(txt, i, i + Len(q) - 1) = q

\* Array.prototype.join
RECURSIVE join(_, _)
join(parts, sep) ==
    IF parts = <<>> THEN <<>>
    ELSE IF Len(parts) = 1 THEN parts[1]
    ELSE parts[1] \o sep \o join(Tail(parts), sep)

\* filteredGallery: the useMemo over gallery and searchQuery
filteredGallery(items, query) ==
    LET q == toLowerCase(trim(query))
    IN  IF q = <<>> THEN items
        ELSE SelectSeq(items, LAMBDA item :
                LET txt    == toLowerCase(join(<<item.prompt, item.model, item.action,
                                                  item.size>>, <<" ">>))
                    tagStr == toLowerCase(join(item.tags, <<" ">>))
                IN  includes(txt, q) \/ includes(tagStr, q))

\* ---- the galleries searched ----
EditChars     == <<"e", "d", "i", "t">>
GenerateChars == <<"g", "e", "n", "e", "r", "a", "t", "e">>
Size512Chars  == <<"5", "1", "2", "x", "5", "1", "2">>
SearchItem(id, p, m, a, tags) ==
    [id |-> id, prompt |-> p, model |-> m, action |-> a, size |-> Size512Chars,
     tags |-> tags]
SearchGalleries ==
    { <<SearchItem("s1", <<"A", "b">>, <<"a">>, EditChars, <<<<"B">>, <<"a", "a">>>>),
        SearchItem("s2", <<"b", " ", "b">>, <<"B">>, GenerateChars, <<>>),
        SearchItem("s3", <<>>, <<"x">>, EditChars, <<<<"A", "b", "a">>>>)>>,
      <<SearchItem("s4", <<"x">>, <<"x">>, GenerateChars, <<<<"a">>, <<"b">>>>),
        SearchItem("s5", <<"a", "A">>, <<"b">>, EditChars, <<>>)>> }

RECURSIVE StringsUpTo(_)
StringsUpTo(n) ==
    IF n = 0 THEN {<<>>}
    ELSE LET shorter == StringsUpTo(n - 1)
         IN  shorter \cup { Append(str, c) : str \in shorter, c \in QueryChars }

\* the search box's onChange: setSearchQuery(e.target.value)
SetSearchQuery(v) ==
    /\ v # searchQuery
    /\ searchQuery' = v
    /\ UNCHANGED <<sGallery, proxyVars, clientVars>>

SearchInit ==
    /\ searchQuery = <<>> /\ sGallery \in SearchGalleries
    /\ ClientInit /\ storage = StoreAbsent /\ ProxyIdle
SearchNext == \E v \in StringsUpTo(MaxQueryLen) : SetSearchQuery(v)
SearchSpec == SearchInit /\ [][SearchNext]_vars

\* ---- the claim's own words ----
\* the same text with every letter in lower case, in upper case
Folded(str) == [i \in DOMAIN str |-> IF str[i] = "A" THEN "a"
                                     ELSE IF str[i] = "B" THEN "b" ELSE str[i]]
Raised(str) == [i \in DOMAIN str |-> IF str[i] = "a" THEN "A"
                                     ELSE IF str[i] = "b" THEN "B" ELSE str[i]]
\* the text without the white space at its ends
RECURSIVE Stripped(_)
Stripped(str) ==
    IF str = <<>> THEN <<>>
    ELSE IF Head(str) = " " THEN Stripped(Tail(str))
    ELSE IF str[Len(str)] = " " THEN Stripped(SubSeq(str, 1, Len(str) - 1))
    ELSE str
\* q occurs in txt
Occurs(q, txt) ==
    \E before, after \in 0..Len(txt) :
        /\ before + Len(q) + after = Len(txt)
        /\ \A k \in 1..Len(q) : txt[before + k] = q[k]
Spaced(a, b) == a \o <<" ">> \o b
\* the texts of a list, one after the other with a space between two
SpacedAll(texts) ==
    LET upTo[i \in 0..Len(texts)] ==
            IF i = 0 THEN <<>>
            ELSE IF i = 1 THEN texts[1]
            ELSE Spaced(upTo[i - 1], texts[i])
    IN  upTo[Len(texts)]
\* the items of a gallery that satisfy a condition, in the gallery's order
Those(items, Cond(_)) == SelectSeq(items, Cond)
RaisedItem(item) ==
    [item EXCEPT !.prompt = Raised(item.prompt), !.model = Raised(item.model),
                 !.action = Raised(item.action), !.size = Raised(item.size),
                 !.tags = [i \in DOMAIN item.tags |-> Raised(item.tags[i])]]

\* C8 (as stated): with q the query trimmed and lower-cased, the filtered gallery
\* is the whole gallery when q is empty, and otherwise exactly the items for which
\* q is a substring of the lower-cased prompt, model, action, size, or of one
\* of the item's tags.
C8_FieldByField ==
    LET q == Folded(Stripped(searchQuery))
        Hit(item) ==
            \/ Occurs(q, Folded(item.prompt)) \/ Occurs(q, Folded(item.model))
            \/ Occurs(q, Folded(item.action)) \/ Occurs(q, Folded(item.size))
            \/ \E i \in DOMAIN item.tags : Occurs(q, Folded(item.tags[i]))
    IN  filteredGallery(sGallery, searchQuery)
            = IF q = <<>> THEN sGallery ELSE Those(sGallery, Hit)

\* C8 (amended): the match is against the joined text: q is a substring of the
\* lower-cased "prompt model action size" (joined by single spaces) or of the
\* lower-cased tags joined by single spaces; the letter case of the query and of
\* the fields never changes which items are kept.
C8_JoinedText ==
    LET q == Folded(Stripped(searchQuery))
        Hit(item) ==
            \/ Occurs(q, Folded(Spaced(Spaced(Spaced(item.prompt, item.model),
                                              item.action), item.size)))
            \/ Occurs(q, Folded(SpacedAll(item.tags)))
        kept == filteredGallery(sGallery, searchQuery)
        raisedGallery == [i \in DOMAIN sGallery |-> RaisedItem(sGallery[i])]
    IN  /\ kept = IF q = <<>> THEN sGallery ELSE Those(sGallery, Hit)
        /\ filteredGallery(sGallery, Raised(searchQuery)) = kept
        /\ filteredGallery(sGallery, Folded(searchQuery)) = kept
        /\ filteredGallery(raisedGallery, searchQuery)
               = [i \in DOMAIN kept |-> RaisedItem(kept[i])]

\* a query with a space inside that no single field holds, typed with a capital,
\* keeps an item through the joined text
C8_Witness ==
    /\ searchQuery = <<"b", " ", "A">>
    /\ \E i \in DOMAIN sGallery :
         /\ sGallery[i].id = "s1"
         /\ filteredGallery(sGallery, searchQuery) = <<sGallery[i]>>

----------------------------------------------------------------------------
(* The gallery store's claims                                              *)

Ids(items) == { items[i].id : i \in DOMAIN items }

\* C3 (as stated): the in-memory gallery and the persisted gallery each hold at
\* most 100 items, in every state reached by load, add, delete, clear and import.
C3_AtMostCap ==
    /\ Len(gallery) <= GalleryCap
    /\ storage.k = "array" => Len(storage.entries) <= GalleryCap

\* C4 (as stated): no two items of the gallery have the same id.
C4_UniqueIds ==
    \A i, j \in DOMAIN gallery : i # j => gallery[i].id # gallery[j].id

\* C5 (as stated): exporting the gallery as JSON and importing that artifact into
\* an empty gallery yields the same items, in the same order, every field unchanged.
C5_RoundTrip ==
    mounted =>
        Merge(Incoming(exportGalleryAsJSON(gallery).entries, nextId, NowISO(steps)), <<>>)
            = gallery

\* C6: a successful import into a gallery G leaves the accepted incoming entries
\* (those with a payload whose id is not in G, in the file's order) followed by
\* all of G, unmodified and in its order.
C6_ImportPrepends ==
    [][last'.op = "import" =>
          /\ \A i \in DOMAIN last'.incoming : last'.incoming[i].b64 # ""
          /\ gallery' = SelectSeq(last'.incoming, LAMBDA x : x.id \notin Ids(gallery))
                        \o gallery]_vars

\* an import that brought one known id (refused) and one new id (placed first)
C6_Witness ==
    /\ last.op = "import" /\ Len(last.incoming) = 2
    /\ Len(gallery) = 2
    /\ gallery[1].id = "d" /\ gallery[2].id = "old_1" /\ gallery[2].b64 = "OLD0"

\* C7: on a success response exactly one item is added: the gallery becomes the
\* new item followed by the gallery as it is when the response arrives, cut to 100
\* from the end; the new item's prompt, action, size and model are the values sent
\* in the request and its image is the returned b64.
C7_AddPrepends ==
    [][last'.op = "add" =>
          /\ Len(gallery') = Min(Len(gallery) + 1, GalleryCap)
          /\ \A i \in 2..Len(gallery') : gallery'[i] = gallery[i - 1]
          /\ gallery'[1].id \notin Ids(gallery)
          /\ Str(gallery'[1].prompt) = last'.sent.request.fields.prompt
          /\ Str(gallery'[1].action) = last'.sent.request.fields.action
          /\ Str(gallery'[1].size)   = last'.sent.request.fields.size
          /\ Str(gallery'[1].model)  = last'.sent.request.fields.model
          /\ Str(gallery'[1].b64)    = last'.b64]_vars

\* an add to a full gallery: the oldest item went, the second oldest is now last
C7_Witness ==
    /\ last.op = "add" /\ Len(gallery) = GalleryCap
    /\ gallery[1].b64 = "AAAA"
    /\ gallery[GalleryCap].id = "old_" \o ToString(GalleryCap - 1)

\* C9: a failed submission and a failed import set a non-empty error message and
\* leave the in-memory gallery and the persisted gallery as they were.
C9_FailureKeepsGallery ==
    [][last'.op \in {"submitFailed", "importFailed"} =>
          /\ NonEmptyString(error')
          /\ gallery' = gallery
          /\ storage' = storage]_vars

\* an edit submitted with no image file was refused, with items in the gallery
C9_Witness ==
    /\ last.op = "submitFailed"
    /\ error = Str("image file is required for edit")
    /\ Len(gallery) > 0

\* C10: every item of the persisted gallery has a non-empty encoded image.
C10_StoredImagesNonEmpty ==
    storage.k = "array" =>
        \A i \in DOMAIN storage.entries : NonEmptyString(storage.entries[i].b64)

\* an import whose file had entries without a payload: only the one with a
\* payload was stored
C10_Witness ==
    /\ last.op = "import" /\ last.writeOk
    /\ storage.k = "array" /\ Len(storage.entries) = 1
    /\ storage.entries[1].b64 = Str("CCCC")

\* C11: every gallery item has a list of tags of at most MaxTags tags, whatever
\* submits, deletes, clears and imports made the gallery.
C11_TagsAtMost20 ==
    \A i \in DOMAIN gallery : Len(gallery[i].tags) <= MaxTags

\* C12: at most one request is in flight: a submission starts only while loading
\* is false and no request is in flight, and loading is true exactly from the
\* start of a submission until its response or failure has been handled.
C12_OneRequestInFlight ==
    [][/\ (loading <=> inflight.active)
       /\ (loading' <=> inflight'.active)
       /\ (last'.op = "submit" => ~loading /\ ~inflight.active /\ loading')
       /\ (loading /\ ~loading' => last'.op \in {"add", "submitFailed"})
       /\ (loading /\ last'.op \in {"add", "submitFailed"} => ~loading')]_vars

\* a request is in flight, and the user has gone on working meanwhile
C12_Witness ==
    loading /\ inflight.active /\ last.op = "setPrompt"

\* the operations that change the gallery and write it to localStorage
Mutations == {"add", "delete", "clear", "import"}

\* C13: when the write to localStorage fails during an add, a delete, a clear or
\* an import, the in-memory gallery is updated as if the write had succeeded (the
\* new item put first and the list cut to the cap; the item removed; the list
\* emptied; the new entries put first), the error message is left as it was,
\* and the persisted gallery keeps its previous content.
C13_WriteFailureIgnored ==
    [][last'.op \in Mutations /\ ~last'.writeOk =>
          /\ storage' = storage
          /\ error' = error
          /\ CASE last'.op = "add" ->
                     /\ Len(gallery') = Min(Len(gallery) + 1, GalleryCap)
                     /\ Str(gallery'[1].b64) = last'.b64
                     /\ \A i \in 2..Len(gallery') : gallery'[i] = gallery[i - 1]
               [] last'.op = "delete" ->
                     \E id \in Ids(gallery) :
                         gallery' = SelectSeq(gallery, LAMBDA g : g.id # id)
               [] last'.op = "clear" -> gallery' = <<>>
               [] last'.op = "import" ->
                     gallery' = SelectSeq(last'.incoming,
                                          LAMBDA x : x.id \notin Ids(gallery))
                                \o gallery]_vars

\* a clear whose write failed: the gallery is empty in memory, localStorage
\* still holds the full gallery
C13_Witness ==
    /\ last.op = "clear" /\ ~last.writeOk
    /\ gallery = <<>>
    /\ storage.k = "array" /\ Len(storage.entries) = GalleryCap

\* exactly one item was added in the step: it is first, the others follow as
\* they were, the list cut to the cap
OneAdded ==
    /\ Len(gallery') = Min(Len(gallery) + 1, GalleryCap)
    /\ gallery'[1].id \notin Ids(gallery)
    /\ \A i \in 2..Len(gallery') : gallery'[i] = gallery[i - 1]

C15_PersistedEqualsMemory ==
    last.op \in Mutations /\ last.writeOk =>
        /\ storage.k = "array"
        /\ Len(storage.entries) = Len(gallery)
        /\ loadGalleryFromStorage(storage) = gallery

\* an item deleted from a full gallery while a request is in flight
C15_Witness ==
    /\ last.op = "delete" /\ last.writeOk /\ inflight.active
    /\ Len(gallery) = GalleryCap - 1
    /\ storage.k = "array" /\ Len(storage.entries) = GalleryCap - 1

============================================================================
